---- MODULE Spec2Model ----
(***************************************************************************)
(* A model of the expression part of the full-fidelity syntax tree library *)
(* (lib/Syntax/ExprSyntax.cpp) and of the swift-syntax-test driver.        *)
(*                                                                         *)
(* Raw nodes live in a heap: a sequence of node records, a node's identity *)
(* being its index.  RC<RawSyntax> is such an index, so that "the same     *)
(* node instance" is equality of indices and "equal content" is equality   *)
(* of the records.  Text is a sequence of one-character strings.           *)
(***************************************************************************)
EXTENDS Integers, Sequences, FiniteSets, TLC

VARIABLES
  heap,      \* the raw nodes allocated so far, by identity
  views,     \* the typed views the client holds
  builder,   \* the FunctionCallExprSyntaxBuilder: CallLayout, ListLayout
  used,      \* history: the raw nodes handed to the builder so far
  built,     \* history: one record per build() call
  last,      \* history: the last API call, its inputs and its result
  aborted,   \* an assertion has failed: the process is gone
  attempt,   \* the typed-view construction over a hand-made raw node
  harness    \* the swift-syntax-test process

vars == <<heap, views, builder, used, built, last, aborted, attempt, harness>>

---------------------------------------------------------------------------
(* Bounds of the model. *)

\* API calls the client makes
MaxCalls == 3
\* children of a hand-made raw node
MaxLayout == 5

---------------------------------------------------------------------------
(* Raw nodes. *)

Present == "Present"
Missing == "Missing"

\* RawTokenSyntax::make
RawTokenSyntax_make(TokKind, Text, Presence, Leading, Trailing) ==
  [Kind |-> "Token", Presence |-> Presence, Layout |-> <<>>,
   TokKind |-> TokKind, Text |-> Text, Leading |-> Leading, Trailing |-> Trailing]

\* RawTokenSyntax::missingToken
RawTokenSyntax_missingToken(TokKind, Text) ==
  RawTokenSyntax_make(TokKind, Text, Missing, <<>>, <<>>)

\* The record of RawSyntax::make(Kind, Layout, Presence); no shape is checked.
RawSyntax_node(Kind, Layout, Presence) ==
  [Kind |-> Kind, Presence |-> Presence, Layout |-> Layout,
   TokKind |-> "none", Text |-> <<>>, Leading |-> <<>>, Trailing |-> <<>>]

\* RawSyntax::missing(Kind): the empty marker node
RawSyntax_missing(Kind) == RawSyntax_node(Kind, <<>>, Missing)

\* Allocation: the new node gets the next identity.
Alloc(h, node) == Append(h, node)

\* RawSyntax::make: a new node instance; [heap, id]
RawSyntax_make(h, Kind, Layout, Presence) ==
  [heap |-> Alloc(h, RawSyntax_node(Kind, Layout, Presence)), id |-> Len(h) + 1]

\* cursorIndex: a cursor is a 0-based child index
cursorIndex(C) == C + 1

\* RawSyntax::getChild
RawSyntax_getChild(h, raw, C) == h[raw].Layout[cursorIndex(C)]

\* RawSyntax::isMissing
isMissing(h, raw) == h[raw].Presence = Missing

\* RawSyntax::isExpr: the kinds between First_Expr and Last_Expr
ExprKinds ==
  {"MissingExpr", "UnknownExpr", "IntegerLiteralExpr",
   "SymbolicReferenceExpr", "FunctionCallExpr"}

isExpr(h, raw) == h[raw].Kind \in ExprKinds

\* RawSyntax::replaceChild: a new node of the same kind and presence whose
\* layout differs at the cursor only; the other children are shared.
RawSyntax_replaceChild(h, raw, C, NewChild) ==
  RawSyntax_make(h, h[raw].Kind,
                 [h[raw].Layout EXCEPT ![cursorIndex(C)] = NewChild],
                 h[raw].Presence)

\* RawSyntax::print: trivia and spelling of the present tokens in tree order,
\* nothing for a missing node or token.
RECURSIVE PrintLayout(_, _)
RECURSIVE RawSyntax_print(_, _)
RawSyntax_print(h, raw) ==
  IF h[raw].Presence = Missing THEN <<>>
  ELSE IF h[raw].Kind = "Token"
       THEN h[raw].Leading \o h[raw].Text \o h[raw].Trailing
       ELSE PrintLayout(h, h[raw].Layout)

PrintLayout(h, layout) ==
  IF layout = <<>> THEN <<>>
  ELSE RawSyntax_print(h, Head(layout)) \o PrintLayout(h, Tail(layout))

---------------------------------------------------------------------------
(* Cursors: the child index of each named slot. *)

Cursor_Sign == 0
Cursor_Digits == 1

Cursor_Identifier == 0
Cursor_GenericArgumentClause == 1

Cursor_Label == 0
Cursor_Colon == 1
Cursor_Expression == 2
Cursor_Comma == 3

Cursor_CalledExpression == 0
Cursor_LeftParen == 1
Cursor_ArgumentList == 2
Cursor_RightParen == 3

---------------------------------------------------------------------------
(* Typed views: a view is its static type, the root raw node of its tree   *)
(* and the path of child indices from the root to its own node (its        *)
(* SyntaxData: Raw, Parent and IndexInParent).                             *)

NoView == [Type |-> "none", Root |-> 0, Path |-> <<>>]

\* make<SyntaxNode>(Raw): a view that is the root of its tree
make(Type, Raw) == [Type |-> Type, Root |-> Raw, Path |-> <<>>]

RECURSIVE Navigate(_, _, _)
Navigate(h, raw, path) ==
  IF path = <<>> THEN raw
  ELSE Navigate(h, h[raw].Layout[cursorIndex(Head(path))], Tail(path))

\* Syntax::getRaw
getRaw(h, v) == Navigate(h, v.Root, v.Path)

\* SyntaxData::getChild wrapped in a view of the given type
childView(Type, v, C) == [Type |-> Type, Root |-> v.Root, Path |-> Append(v.Path, C)]

Front(s) == SubSeq(s, 1, Len(s) - 1)
Last(s) == s[Len(s)]

\* SyntaxData::replaceSelf: rebuild every ancestor up to a new root and
\* return the view at the same path in the new tree.
RECURSIVE SyntaxData_replaceSelf(_, _, _)
SyntaxData_replaceSelf(h, v, NewRaw) ==
  IF v.Path = <<>>
  THEN [ok |-> TRUE, heap |-> h, view |-> [v EXCEPT !.Root = NewRaw]]
  ELSE LET parent == [Type |-> "Syntax", Root |-> v.Root, Path |-> Front(v.Path)]
           r      == RawSyntax_replaceChild(h, getRaw(h, parent), Last(v.Path), NewRaw)
           up     == SyntaxData_replaceSelf(r.heap, parent, r.id)
       IN [ok |-> TRUE, heap |-> up.heap,
           view |-> [Type |-> v.Type, Root |-> up.view.Root, Path |-> v.Path]]

\* SyntaxData::replaceChild<SyntaxNode>
SyntaxData_replaceChild(h, v, RawChild, C) ==
  LET r == RawSyntax_replaceChild(h, getRaw(h, v), C, RawChild)
  IN SyntaxData_replaceSelf(r.heap, v, r.id)

\* A failed assert: the call aborts, nothing is allocated, no view returned.
Abort(h) == [ok |-> FALSE, heap |-> h, view |-> NoView]

\* TokenSyntax::getTokenKind / getText of the token a TokenSyntax wraps
getTokenKind(h, tok) == h[tok].TokKind
getText(h, tok) == h[tok].Text

\* syntax_assert_token_is(Tok, Kind, Text)
syntax_assert_token_is(h, tok, Kind, Text) ==
  getTokenKind(h, tok) = Kind /\ getText(h, tok) = Text

\* RawSyntax::make over freshly made children: the children first, then the
\* node; [heap, id]
MakeWithChildren(h, Kind, kids, Presence) ==
  RawSyntax_make(h \o kids, Kind, [i \in 1..Len(kids) |-> Len(h) + i], Presence)

\* a result of a factory: the view over the node just made
Made(Type, r) == [ok |-> TRUE, heap |-> r.heap, view |-> make(Type, r.id)]

---------------------------------------------------------------------------
(* expression API *)

ExprSyntax_makeBlank(h) ==
  Made("ExprSyntax", [heap |-> Alloc(h, RawSyntax_missing("MissingExpr")),
                      id |-> Len(h) + 1])

---------------------------------------------------------------------------
(* integer-literal-expression API *)

IntegerLiteralExprSyntax_makeBlank(h) ==
  Made("IntegerLiteralExprSyntax",
       MakeWithChildren(h, "IntegerLiteralExpr",
         << RawTokenSyntax_missingToken("oper_prefix", <<>>),
            RawTokenSyntax_missingToken("integer_literal", <<>>) >>,
         Present))

\* a variant of withDigits that replaces the child at the sign cursor
withDigits_AtSignCursor(h, v, NewDigits) ==
  IF getTokenKind(h, NewDigits) = "integer_literal"
  THEN SyntaxData_replaceChild(h, v, NewDigits, Cursor_Sign)
  ELSE Abort(h)

IntegerLiteralExprSyntax_withDigits(h, v, NewDigits) ==
  IF getTokenKind(h, NewDigits) = "integer_literal"
  THEN SyntaxData_replaceChild(h, v, NewDigits, Cursor_Digits)
  ELSE Abort(h)

IntegerLiteralExprSyntax_withSign(h, v, NewSign) ==
  IF getTokenKind(h, NewSign) = "oper_prefix"
  THEN SyntaxData_replaceChild(h, v, NewSign, Cursor_Sign)
  ELSE Abort(h)

---------------------------------------------------------------------------
(* symbolic-reference API *)

SymbolicReferenceExprSyntax_makeBlank(h) ==
  Made("SymbolicReferenceExprSyntax",
       MakeWithChildren(h, "SymbolicReferenceExpr",
         << RawTokenSyntax_missingToken("identifier", <<>>),
            RawSyntax_missing("GenericArgumentClause") >>,
         Present))

SymbolicReferenceExprSyntax_getIdentifier(h, v) ==
  [some |-> TRUE, view |-> childView("TokenSyntax", v, Cursor_Identifier)]

SymbolicReferenceExprSyntax_withIdentifier(h, v, NewIdentifier) ==
  IF getTokenKind(h, NewIdentifier) = "identifier"
  THEN SyntaxData_replaceChild(h, v, NewIdentifier, Cursor_Identifier)
  ELSE Abort(h)

SymbolicReferenceExprSyntax_getGenericArgumentClause(h, v) ==
  LET RawClause == RawSyntax_getChild(h, getRaw(h, v), Cursor_GenericArgumentClause)
  IN IF isMissing(h, RawClause)
     THEN [some |-> FALSE, view |-> NoView]
     ELSE [some |-> TRUE,
           view |-> childView("GenericArgumentClauseSyntax", v,
                              Cursor_GenericArgumentClause)]

SymbolicReferenceExprSyntax_withGenericArgumentClause(h, v, NewGenericArgs) ==
  SyntaxData_replaceChild(h, v, getRaw(h, NewGenericArgs),
                          Cursor_GenericArgumentClause)

---------------------------------------------------------------------------
(* function-call-argument API *)

\* a variant of makeBlank whose colon token is present
FunctionCallArgument_makeBlank_PresentColon(h) ==
  Made("FunctionCallArgumentSyntax",
       MakeWithChildren(h, "FunctionCallArgument",
         << RawTokenSyntax_missingToken("identifier", <<>>),
            RawTokenSyntax_make("colon", <<":">>, Present, <<>>, <<>>),
            RawSyntax_missing("MissingExpr"),
            RawTokenSyntax_missingToken("comma", <<",">>) >>,
         Present))

FunctionCallArgumentSyntax_makeBlank(h) ==
  Made("FunctionCallArgumentSyntax",
       MakeWithChildren(h, "FunctionCallArgument",
         << RawTokenSyntax_missingToken("identifier", <<>>),
            RawTokenSyntax_missingToken("colon", <<":">>),
            RawSyntax_missing("MissingExpr"),
            RawTokenSyntax_missingToken("comma", <<",">>) >>,
         Present))

FunctionCallArgumentSyntax_getLabel(h, v) ==
  [some |-> TRUE, view |-> childView("TokenSyntax", v, Cursor_Label)]

FunctionCallArgumentSyntax_withLabel(h, v, NewLabel) ==
  IF getTokenKind(h, NewLabel) = "identifier"
  THEN SyntaxData_replaceChild(h, v, NewLabel, Cursor_Label)
  ELSE Abort(h)

FunctionCallArgumentSyntax_getColonToken(h, v) ==
  [some |-> TRUE, view |-> childView("TokenSyntax", v, Cursor_Colon)]

\* a variant of withColonToken that checks the token kind only
withColonToken_KindOnly(h, v, NewColon) ==
  IF getTokenKind(h, NewColon) = "colon"
  THEN SyntaxData_replaceChild(h, v, NewColon, Cursor_Colon)
  ELSE Abort(h)

FunctionCallArgumentSyntax_withColonToken(h, v, NewColon) ==
  IF syntax_assert_token_is(h, NewColon, "colon", <<":">>)
  THEN SyntaxData_replaceChild(h, v, NewColon, Cursor_Colon)
  ELSE Abort(h)

\* a variant of getExpression that returns the child view without looking
\* at its presence
getExpression_Unconditional(h, v) ==
  [some |-> TRUE, view |-> childView("ExprSyntax", v, Cursor_Expression)]

FunctionCallArgumentSyntax_getExpression(h, v) ==
  LET RawExpression == RawSyntax_getChild(h, getRaw(h, v), Cursor_Expression)
  IN IF isMissing(h, RawExpression)
     THEN [some |-> FALSE, view |-> NoView]
     ELSE [some |-> TRUE, view |-> childView("ExprSyntax", v, Cursor_Expression)]

\* a variant of withExpression that returns a root view of the new argument
\* node, detached from the tree the receiver is anchored in
withExpression_Detached(h, v, NewExpression) ==
  LET r == RawSyntax_replaceChild(h, getRaw(h, v), Cursor_Expression,
                                  getRaw(h, NewExpression))
  IN [ok |-> TRUE, heap |-> r.heap, view |-> make("FunctionCallArgumentSyntax", r.id)]

FunctionCallArgumentSyntax_withExpression(h, v, NewExpression) ==
  SyntaxData_replaceChild(h, v, getRaw(h, NewExpression), Cursor_Expression)

FunctionCallArgumentSyntax_getTrailingComma(h, v) ==
  [some |-> TRUE, view |-> childView("TokenSyntax", v, Cursor_Comma)]

FunctionCallArgumentSyntax_withTrailingComma(h, v, NewTrailingComma) ==
  IF syntax_assert_token_is(h, NewTrailingComma, "comma", <<",">>)
  THEN SyntaxData_replaceChild(h, v, NewTrailingComma, Cursor_Comma)
  ELSE Abort(h)

---------------------------------------------------------------------------
(* function-call-expression API *)

FunctionCallExprSyntax_makeBlank(h) ==
  Made("FunctionCallExprSyntax",
       MakeWithChildren(h, "FunctionCallExpr",
         << RawSyntax_missing("MissingExpr"),
            RawTokenSyntax_missingToken("l_paren", <<"(">>),
            RawSyntax_missing("FunctionCallArgumentList"),
            RawTokenSyntax_missingToken("r_paren", <<")">>) >>,
         Present))

FunctionCallExprSyntax_getCalledExpression(h, v) ==
  [some |-> TRUE, view |-> childView("ExprSyntax", v, Cursor_CalledExpression)]

\* a variant of withCalledExpression that starts from a blank call node
\* instead of the node of the view
withCalledExpression_FromBlank(h, v, NewBaseExpression) ==
  LET blank == FunctionCallExprSyntax_makeBlank(h)
  IN SyntaxData_replaceSelf(
       RawSyntax_replaceChild(blank.heap, blank.view.Root, Cursor_CalledExpression,
                              getRaw(h, NewBaseExpression)).heap,
       v, Len(blank.heap) + 1)

FunctionCallExprSyntax_withCalledExpression(h, v, NewBaseExpression) ==
  SyntaxData_replaceChild(h, v, getRaw(h, NewBaseExpression),
                          Cursor_CalledExpression)

FunctionCallExprSyntax_getLeftParen(h, v) ==
  [some |-> TRUE, view |-> childView("TokenSyntax", v, Cursor_LeftParen)]

FunctionCallExprSyntax_withLeftParen(h, v, NewLeftParen) ==
  IF syntax_assert_token_is(h, NewLeftParen, "l_paren", <<"(">>)
  THEN SyntaxData_replaceChild(h, v, NewLeftParen, Cursor_LeftParen)
  ELSE Abort(h)

FunctionCallExprSyntax_getArgumentList(h, v) ==
  [some |-> TRUE,
   view |-> childView("FunctionCallArgumentListSyntax", v, Cursor_ArgumentList)]

FunctionCallExprSyntax_withArgumentList(h, v, NewArgumentList) ==
  SyntaxData_replaceChild(h, v, getRaw(h, NewArgumentList), Cursor_ArgumentList)

FunctionCallExprSyntax_getRightParen(h, v) ==
  [some |-> TRUE, view |-> childView("TokenSyntax", v, Cursor_RightParen)]

FunctionCallExprSyntax_withRightParen(h, v, NewRightParen) ==
  IF syntax_assert_token_is(h, NewRightParen, "r_paren", <<")">>)
  THEN SyntaxData_replaceChild(h, v, NewRightParen, Cursor_RightParen)
  ELSE Abort(h)

---------------------------------------------------------------------------
(* function-call-expression Builder *)

\* FunctionCallArgumentListSyntax::makeBlank: an empty present list node
FunctionCallArgumentListSyntax_makeBlank(h) ==
  Made("FunctionCallArgumentListSyntax",
       RawSyntax_make(h, "FunctionCallArgumentList", <<>>, Present))

\* The constructor copies the layouts of the two blank nodes.
FunctionCallExprSyntaxBuilder_new(h) ==
  LET call == FunctionCallExprSyntax_makeBlank(h)
      list == FunctionCallArgumentListSyntax_makeBlank(call.heap)
  IN [ok |-> TRUE, heap |-> list.heap,
      builder |-> [CallLayout |-> list.heap[getRaw(list.heap, call.view)].Layout,
                   ListLayout |-> list.heap[getRaw(list.heap, list.view)].Layout]]

\* a variant of useLeftParen without the assertion on the token
useLeftParen_Unchecked(h, b, LeftParen) ==
  [ok |-> TRUE, heap |-> h,
   builder |-> [b EXCEPT !.CallLayout[cursorIndex(Cursor_LeftParen)] = LeftParen]]

FunctionCallExprSyntaxBuilder_useLeftParen(h, b, LeftParen) ==
  IF syntax_assert_token_is(h, LeftParen, "l_paren", <<"(">>)
  THEN [ok |-> TRUE, heap |-> h,
        builder |-> [b EXCEPT !.CallLayout[cursorIndex(Cursor_LeftParen)] = LeftParen]]
  ELSE [ok |-> FALSE, heap |-> h, builder |-> b]

\* a variant of appendArgument that inserts at the front of the list
appendArgument_AtFront(h, b, AdditionalArgument) ==
  [ok |-> TRUE, heap |-> h,
   builder |-> [b EXCEPT !.ListLayout = <<getRaw(h, AdditionalArgument)>> \o @]]

FunctionCallExprSyntaxBuilder_appendArgument(h, b, AdditionalArgument) ==
  [ok |-> TRUE, heap |-> h,
   builder |-> [b EXCEPT !.ListLayout = Append(@, getRaw(h, AdditionalArgument))]]

FunctionCallExprSyntaxBuilder_useCalledExpression(h, b, CalledExpression) ==
  [ok |-> TRUE, heap |-> h,
   builder |-> [b EXCEPT !.CallLayout[cursorIndex(Cursor_CalledExpression)] =
                             getRaw(h, CalledExpression)]]

\* a variant of useRightParen that stores the token at the left-paren cursor
useRightParen_AtLeftParen(h, b, RightParen) ==
  IF syntax_assert_token_is(h, RightParen, "r_paren", <<")">>)
  THEN [ok |-> TRUE, heap |-> h,
        builder |-> [b EXCEPT !.CallLayout[cursorIndex(Cursor_LeftParen)] = RightParen]]
  ELSE [ok |-> FALSE, heap |-> h, builder |-> b]

FunctionCallExprSyntaxBuilder_useRightParen(h, b, RightParen) ==
  IF syntax_assert_token_is(h, RightParen, "r_paren", <<")">>)
  THEN [ok |-> TRUE, heap |-> h,
        builder |-> [b EXCEPT !.CallLayout[cursorIndex(Cursor_RightParen)] = RightParen]]
  ELSE [ok |-> FALSE, heap |-> h, builder |-> b]

\* a variant of build() that stores the list node in the builder's own
\* CallLayout before making the call node
build_SplicingInPlace(h, b) ==
  LET RawArgs == RawSyntax_make(h, "FunctionCallArgumentList", b.ListLayout, Present)
      spliced == [b EXCEPT !.CallLayout[cursorIndex(Cursor_ArgumentList)] = RawArgs.id]
      RawCall == RawSyntax_make(RawArgs.heap, "FunctionCallExpr", spliced.CallLayout,
                                Present)
  IN [ok |-> TRUE, heap |-> RawCall.heap, builder |-> spliced,
      view |-> make("FunctionCallExprSyntax", RawCall.id)]

\* build() const: the list node, the call node over CallLayout, then the
\* call node with the list spliced in; the builder keeps its layouts.
FunctionCallExprSyntaxBuilder_build(h, b) ==
  LET RawArgs  == RawSyntax_make(h, "FunctionCallArgumentList", b.ListLayout, Present)
      RawCall0 == RawSyntax_make(RawArgs.heap, "FunctionCallExpr", b.CallLayout, Present)
      RawCall  == RawSyntax_replaceChild(RawCall0.heap, RawCall0.id,
                                         Cursor_ArgumentList, RawArgs.id)
  IN [ok |-> TRUE, heap |-> RawCall.heap, builder |-> b,
      view |-> make("FunctionCallExprSyntax", RawCall.id)]

---------------------------------------------------------------------------
(* The client of the library: the state after the lexer has produced some  *)
(* tokens, the parser a generic-argument clause, and a builder has been    *)
(* constructed.                                                            *)

\* the tokens the lexer hands over, and four tokens of a punctuation kind
\* made with another spelling
LexedTokens ==
  << RawTokenSyntax_make("identifier", <<"x">>, Present, <<>>, <<>>),
     RawTokenSyntax_make("oper_prefix", <<"-">>, Present, <<>>, <<>>),
     RawTokenSyntax_make("integer_literal", <<"1">>, Present, <<>>, <<>>),
     RawTokenSyntax_make("colon", <<":">>, Present, <<>>, <<" ">>),
     RawTokenSyntax_make("comma", <<",">>, Present, <<>>, <<>>),
     RawTokenSyntax_make("l_paren", <<"(">>, Present, <<>>, <<>>),
     RawTokenSyntax_make("r_paren", <<")">>, Present, <<>>, <<>>),
     RawTokenSyntax_make("colon", <<";">>, Present, <<>>, <<>>),
     RawTokenSyntax_make("comma", <<";">>, Present, <<>>, <<>>),
     RawTokenSyntax_make("l_paren", <<"[">>, Present, <<>>, <<>>),
     RawTokenSyntax_make("r_paren", <<"]">>, Present, <<>>, <<>>) >>

\* what the parser hands over: a generic-argument clause and the call
\* argument "x: 1," over the lexed tokens
ParsedNodes ==
  LET n == Len(LexedTokens)
  IN << RawSyntax_node("GenericArgumentClause", <<>>, Present),
        RawTokenSyntax_missingToken("oper_prefix", <<>>),
        RawSyntax_node("IntegerLiteralExpr", <<n + 2, 3>>, Present),
        RawSyntax_node("FunctionCallArgument", <<1, 4, n + 3, 5>>, Present) >>

InitHeap == LexedTokens \o ParsedNodes

\* the last argument of the parsed call, "x: 1" without trailing comma, which
\* shares its label, colon and expression with the first
LastArgumentNodes ==
  LET first == InitHeap[Len(InitHeap)].Layout
  IN << RawTokenSyntax_missingToken("comma", <<",">>),
        RawSyntax_node("FunctionCallArgument",
                       [first EXCEPT ![cursorIndex(Cursor_Comma)] = Len(InitHeap) + 1],
                       Present) >>

ClientHeap == InitHeap \o LastArgumentNodes

ParsedViews ==
  {make("FunctionCallArgumentSyntax", Len(InitHeap)),
   make("FunctionCallArgumentSyntax", Len(ClientHeap))}

NoCall ==
  [n |-> 0, op |-> "none", ok |-> TRUE, view |-> NoView, arg |-> 0, cursor |-> 0,
   result |-> NoView, heapBefore |-> <<>>, viewsBefore |-> {},
   builderBefore |-> [CallLayout |-> <<>>, ListLayout |-> <<>>]]

NoAttempt == [category |-> "none", raw |-> 0, ok |-> TRUE]

HarnessIdle == [pc |-> "idle"]

LibraryInit(h, parsed) ==
  LET b == FunctionCallExprSyntaxBuilder_new(h)
  IN /\ heap = b.heap
     /\ builder = b.builder
     /\ views = parsed
     /\ used = [CalledExpression |-> 0, LeftParen |-> 0, RightParen |-> 0,
                Arguments |-> <<>>]
     /\ built = <<>>
     /\ last = NoCall
     /\ aborted = FALSE

Init ==
  /\ LibraryInit(ClientHeap, ParsedViews)
  /\ attempt = NoAttempt
  /\ harness = HarnessIdle

\* the process runs and the client has calls left
Running == ~aborted /\ last.n < MaxCalls

ViewsOf(Type) == {v \in views : v.Type = Type}

ExprTypes ==
  {"ExprSyntax", "UnknownExprSyntax", "IntegerLiteralExprSyntax",
   "SymbolicReferenceExprSyntax", "FunctionCallExprSyntax"}

\* the views that convert to ExprSyntax
ExprViews == {v \in views : v.Type \in ExprTypes}

\* the lexed tokens: the library makes no present token
Lexed == {t \in 1..Len(heap) : heap[t].Kind = "Token" /\ heap[t].Presence = Present}

\* the tokens the client can pass as a TokenSyntax: the lexed ones and the
\* ones a getter has returned
TokenArgs == Lexed \cup {getRaw(heap, v) : v \in ViewsOf("TokenSyntax")}

\* the tokens tried in a slot of token kind K: every such token of that kind
\* (of the fixed spelling or not) and one token of another kind
TokensFor(K) ==
  {t \in TokenArgs : heap[t].TokKind = K}
    \cup {CHOOSE t \in Lexed : heap[t].TokKind # K}

ClauseArgs ==
  {make("GenericArgumentClauseSyntax", n) :
     n \in {m \in 1..Len(heap) : heap[m].Kind = "GenericArgumentClause"}}
    \cup ViewsOf("GenericArgumentClauseSyntax")

CallRecord(op, v, arg, C, r) ==
  [n |-> last.n + 1, op |-> op, ok |-> r.ok, view |-> v, arg |-> arg, cursor |-> C,
   result |-> r.view, heapBefore |-> heap, viewsBefore |-> views,
   builderBefore |-> builder]

\* a factory or setter call on the view API: the result joins the client's
\* views; a failed assert ends the process
ViewStep(op, v, arg, C, r) ==
  /\ heap' = r.heap
  /\ views' = IF r.ok THEN views \cup {r.view} ELSE views
  /\ aborted' = ~r.ok
  /\ last' = CallRecord(op, v, arg, C, r)
  /\ UNCHANGED <<builder, used, built, attempt, harness>>

ViewCall(op, v, arg, C, r) == Running /\ ViewStep(op, v, arg, C, r)

\* a getter call: nothing is allocated; a returned view joins the views
GetterCall(op, v, C, g) ==
  /\ Running
  /\ views' = IF g.some THEN views \cup {g.view} ELSE views
  /\ last' = CallRecord(op, v, 0, C, [ok |-> g.some, view |-> g.view])
  /\ UNCHANGED <<heap, builder, used, built, aborted, attempt, harness>>

MakeBlankExpr ==
  ViewCall("ExprSyntax::makeBlank", NoView, 0, 0, ExprSyntax_makeBlank(heap))

MakeBlankIntegerLiteralExpr ==
  ViewCall("IntegerLiteralExprSyntax::makeBlank", NoView, 0, 0,
           IntegerLiteralExprSyntax_makeBlank(heap))

MakeBlankSymbolicReferenceExpr ==
  ViewCall("SymbolicReferenceExprSyntax::makeBlank", NoView, 0, 0,
           SymbolicReferenceExprSyntax_makeBlank(heap))

MakeBlankFunctionCallArgument ==
  ViewCall("FunctionCallArgumentSyntax::makeBlank", NoView, 0, 0,
           FunctionCallArgumentSyntax_makeBlank(heap))

MakeBlankFunctionCallExpr ==
  ViewCall("FunctionCallExprSyntax::makeBlank", NoView, 0, 0,
           FunctionCallExprSyntax_makeBlank(heap))

WithDigits ==
  \E v \in ViewsOf("IntegerLiteralExprSyntax"), t \in TokensFor("integer_literal") :
    ViewCall("withDigits", v, t, Cursor_Digits,
             IntegerLiteralExprSyntax_withDigits(heap, v, t))

WithSign ==
  \E v \in ViewsOf("IntegerLiteralExprSyntax"), t \in TokensFor("oper_prefix") :
    ViewCall("withSign", v, t, Cursor_Sign,
             IntegerLiteralExprSyntax_withSign(heap, v, t))

WithIdentifier ==
  \E v \in ViewsOf("SymbolicReferenceExprSyntax"), t \in TokensFor("identifier") :
    ViewCall("withIdentifier", v, t, Cursor_Identifier,
             SymbolicReferenceExprSyntax_withIdentifier(heap, v, t))

WithGenericArgumentClause ==
  \E v \in ViewsOf("SymbolicReferenceExprSyntax"), c \in ClauseArgs :
    ViewCall("withGenericArgumentClause", v, getRaw(heap, c),
             Cursor_GenericArgumentClause,
             SymbolicReferenceExprSyntax_withGenericArgumentClause(heap, v, c))

WithLabel ==
  \E v \in ViewsOf("FunctionCallArgumentSyntax"), t \in TokensFor("identifier") :
    ViewCall("withLabel", v, t, Cursor_Label,
             FunctionCallArgumentSyntax_withLabel(heap, v, t))

WithColonToken ==
  \E v \in ViewsOf("FunctionCallArgumentSyntax"), t \in TokensFor("colon") :
    ViewCall("withColonToken", v, t, Cursor_Colon,
             FunctionCallArgumentSyntax_withColonToken(heap, v, t))

WithExpression ==
  \E v \in ViewsOf("FunctionCallArgumentSyntax"), e \in ExprViews :
    ViewCall("withExpression", v, getRaw(heap, e), Cursor_Expression,
             FunctionCallArgumentSyntax_withExpression(heap, v, e))

WithTrailingComma ==
  \E v \in ViewsOf("FunctionCallArgumentSyntax"), t \in TokensFor("comma") :
    ViewCall("withTrailingComma", v, t, Cursor_Comma,
             FunctionCallArgumentSyntax_withTrailingComma(heap, v, t))

WithCalledExpression ==
  \E v \in ViewsOf("FunctionCallExprSyntax"), e \in ExprViews :
    ViewCall("withCalledExpression", v, getRaw(heap, e), Cursor_CalledExpression,
             FunctionCallExprSyntax_withCalledExpression(heap, v, e))

WithLeftParen ==
  \E v \in ViewsOf("FunctionCallExprSyntax"), t \in TokensFor("l_paren") :
    ViewCall("withLeftParen", v, t, Cursor_LeftParen,
             FunctionCallExprSyntax_withLeftParen(heap, v, t))

WithArgumentList ==
  \E v \in ViewsOf("FunctionCallExprSyntax"),
     l \in ViewsOf("FunctionCallArgumentListSyntax") :
    ViewCall("withArgumentList", v, getRaw(heap, l), Cursor_ArgumentList,
             FunctionCallExprSyntax_withArgumentList(heap, v, l))

WithRightParen ==
  \E v \in ViewsOf("FunctionCallExprSyntax"), t \in TokensFor("r_paren") :
    ViewCall("withRightParen", v, t, Cursor_RightParen,
             FunctionCallExprSyntax_withRightParen(heap, v, t))

GetIdentifier ==
  \E v \in ViewsOf("SymbolicReferenceExprSyntax") :
    GetterCall("getIdentifier", v, Cursor_Identifier,
               SymbolicReferenceExprSyntax_getIdentifier(heap, v))

GetGenericArgumentClause ==
  \E v \in ViewsOf("SymbolicReferenceExprSyntax") :
    GetterCall("getGenericArgumentClause", v, Cursor_GenericArgumentClause,
               SymbolicReferenceExprSyntax_getGenericArgumentClause(heap, v))

GetLabel ==
  \E v \in ViewsOf("FunctionCallArgumentSyntax") :
    GetterCall("getLabel", v, Cursor_Label,
               FunctionCallArgumentSyntax_getLabel(heap, v))

GetColonToken ==
  \E v \in ViewsOf("FunctionCallArgumentSyntax") :
    GetterCall("getColonToken", v, Cursor_Colon,
               FunctionCallArgumentSyntax_getColonToken(heap, v))

GetExpression ==
  \E v \in ViewsOf("FunctionCallArgumentSyntax") :
    GetterCall("getExpression", v, Cursor_Expression,
               FunctionCallArgumentSyntax_getExpression(heap, v))

GetTrailingComma ==
  \E v \in ViewsOf("FunctionCallArgumentSyntax") :
    GetterCall("getTrailingComma", v, Cursor_Comma,
               FunctionCallArgumentSyntax_getTrailingComma(heap, v))

GetCalledExpression ==
  \E v \in ViewsOf("FunctionCallExprSyntax") :
    GetterCall("getCalledExpression", v, Cursor_CalledExpression,
               FunctionCallExprSyntax_getCalledExpression(heap, v))

GetLeftParen ==
  \E v \in ViewsOf("FunctionCallExprSyntax") :
    GetterCall("getLeftParen", v, Cursor_LeftParen,
               FunctionCallExprSyntax_getLeftParen(heap, v))

GetArgumentList ==
  \E v \in ViewsOf("FunctionCallExprSyntax") :
    GetterCall("getArgumentList", v, Cursor_ArgumentList,
               FunctionCallExprSyntax_getArgumentList(heap, v))

GetRightParen ==
  \E v \in ViewsOf("FunctionCallExprSyntax") :
    GetterCall("getRightParen", v, Cursor_RightParen,
               FunctionCallExprSyntax_getRightParen(heap, v))

\* a call on the builder; a failed assert ends the process
BuilderStep(op, arg, r, nowUsed) ==
  /\ heap' = r.heap
  /\ builder' = r.builder
  /\ used' = IF r.ok THEN nowUsed ELSE used
  /\ aborted' = ~r.ok
  /\ last' = CallRecord(op, NoView, arg, 0, [ok |-> r.ok, view |-> NoView])
  /\ UNCHANGED <<views, built, attempt, harness>>

BuilderCall(op, arg, r, nowUsed) == Running /\ BuilderStep(op, arg, r, nowUsed)

UseLeftParen ==
  \E t \in TokensFor("l_paren") :
    BuilderCall("useLeftParen", t,
                FunctionCallExprSyntaxBuilder_useLeftParen(heap, builder, t),
                [used EXCEPT !.LeftParen = t])

UseRightParen ==
  \E t \in TokensFor("r_paren") :
    BuilderCall("useRightParen", t,
                FunctionCallExprSyntaxBuilder_useRightParen(heap, builder, t),
                [used EXCEPT !.RightParen = t])

UseCalledExpression ==
  \E e \in ExprViews :
    BuilderCall("useCalledExpression", getRaw(heap, e),
                FunctionCallExprSyntaxBuilder_useCalledExpression(heap, builder, e),
                [used EXCEPT !.CalledExpression = getRaw(heap, e)])

AppendArgument ==
  \E a \in ViewsOf("FunctionCallArgumentSyntax") :
    BuilderCall("appendArgument", getRaw(heap, a),
                   FunctionCallExprSyntaxBuilder_appendArgument(heap, builder, a),
                   [used EXCEPT !.Arguments = Append(@, getRaw(heap, a))])

\* a call of build(): the result joins the client's views
BuildStep(r) ==
  /\ heap' = r.heap
  /\ builder' = r.builder
  /\ views' = views \cup {r.view}
  /\ built' = Append(built, [view |-> r.view, used |-> used, builder |-> builder])
  /\ last' = CallRecord("build", NoView, 0, 0, r)
  /\ UNCHANGED <<used, aborted, attempt, harness>>

Build ==
  LET r == FunctionCallExprSyntaxBuilder_build(heap, builder)
  IN Running /\ BuildStep(r)

Next ==
  \/ MakeBlankExpr
  \/ MakeBlankIntegerLiteralExpr
  \/ MakeBlankSymbolicReferenceExpr
  \/ MakeBlankFunctionCallArgument
  \/ MakeBlankFunctionCallExpr
  \/ WithDigits
  \/ WithSign
  \/ WithIdentifier
  \/ WithGenericArgumentClause
  \/ WithLabel
  \/ WithColonToken
  \/ WithExpression
  \/ WithTrailingComma
  \/ WithCalledExpression
  \/ WithLeftParen
  \/ WithArgumentList
  \/ WithRightParen
  \/ GetIdentifier
  \/ GetGenericArgumentClause
  \/ GetLabel
  \/ GetColonToken
  \/ GetExpression
  \/ GetTrailingComma
  \/ GetCalledExpression
  \/ GetLeftParen
  \/ GetArgumentList
  \/ GetRightParen
  \/ UseLeftParen
  \/ UseRightParen
  \/ UseCalledExpression
  \/ AppendArgument
  \/ Build

Spec == Init /\ [][Next]_vars

---------------------------------------------------------------------------
(* Properties of the view API and of the builder, checked under Spec. *)

WithOps ==
  {"withDigits", "withSign", "withIdentifier", "withGenericArgumentClause",
   "withLabel", "withColonToken", "withExpression", "withTrailingComma",
   "withCalledExpression", "withLeftParen", "withArgumentList", "withRightParen"}

\* the raw node of the view a call was made on, and of the view it returned
RawBefore == last.heapBefore[getRaw(last.heapBefore, last.view)]
RawOfView == heap[getRaw(heap, last.view)]
RawOfResult == heap[getRaw(heap, last.result)]

C2_StructuralSharing ==
  (last.op \in WithOps /\ last.ok) =>
    /\ RawOfResult.Kind = RawOfView.Kind
    /\ RawOfResult.Presence = RawOfView.Presence
    /\ Len(RawOfResult.Layout) = Len(RawOfView.Layout)
    /\ \A i \in 1..Len(RawOfView.Layout) :
         i # cursorIndex(last.cursor) => RawOfResult.Layout[i] = RawOfView.Layout[i]

\* a withX call on a node that has a present sibling to share
C2_Witness ==
  /\ last.op \in WithOps /\ last.ok
  /\ \E i \in 1..Len(RawOfView.Layout) :
       i # cursorIndex(last.cursor) /\ ~isMissing(heap, RawOfView.Layout[i])

\* the argument list node of a built call expression
ArgumentListOf(v) == RawSyntax_getChild(heap, getRaw(heap, v), Cursor_ArgumentList)

\* C3: the argument list of the call expression build() returns holds exactly
\* the arguments appended so far, in call order.
C3_BuilderOrdering ==
  \A i \in 1..Len(built) :
    heap[ArgumentListOf(built[i].view)].Layout = built[i].used.Arguments

\* a call built after two different arguments were appended
C3_Witness ==
  \E i \in 1..Len(built) :
    /\ Len(built[i].used.Arguments) >= 2
    /\ built[i].used.Arguments[1] # built[i].used.Arguments[2]

MakeBlankOps ==
  {"ExprSyntax::makeBlank", "IntegerLiteralExprSyntax::makeBlank",
   "SymbolicReferenceExprSyntax::makeBlank",
   "FunctionCallArgumentSyntax::makeBlank", "FunctionCallExprSyntax::makeBlank"}

\* C5: the tree makeBlank() returns has only missing children and prints as
\* the empty string, for each of the five kinds.
C5_BlankIdentity ==
  last.op \in MakeBlankOps =>
    /\ \A i \in 1..Len(RawOfResult.Layout) : isMissing(heap, RawOfResult.Layout[i])
    /\ RawSyntax_print(heap, getRaw(heap, last.result)) = <<>>

\* a blank call argument: its missing colon and comma keep their spelling
C5_Witness ==
  /\ last.op = "FunctionCallArgumentSyntax::makeBlank"
  /\ \E i \in 1..Len(RawOfResult.Layout) : heap[RawOfResult.Layout[i]].Text # <<>>

GetterOps ==
  {"getIdentifier", "getGenericArgumentClause", "getLabel", "getColonToken",
   "getExpression", "getTrailingComma", "getCalledExpression", "getLeftParen",
   "getArgumentList", "getRightParen"}

\* the getters whose return type is an optional view
OptionalGetterOps == {"getGenericArgumentClause", "getExpression"}

\* the child at the cursor of the last call, in the view it was made on
ChildAtCursor == RawSyntax_getChild(heap, getRaw(heap, last.view), last.cursor)

\* C8 as stated: each named getter returns a child view when the child at its
\* cursor is present and an absent value when that child is missing.
C8_GetterAbsentWhenMissing ==
  last.op \in GetterOps =>
    /\ last.ok <=> ~isMissing(heap, ChildAtCursor)
    /\ last.ok => getRaw(heap, last.result) = ChildAtCursor

\* C8, amended: getGenericArgumentClause and getExpression return an absent
\* value exactly when the child at their cursor is missing and a view of that
\* child otherwise; each of the other eight getters always returns a view of
\* the child at its cursor, which is missing exactly when that child is.
C8_GetterPresence ==
  last.op \in GetterOps =>
    /\ last.op \in OptionalGetterOps => (last.ok <=> ~isMissing(heap, ChildAtCursor))
    /\ last.op \notin OptionalGetterOps => last.ok
    /\ last.ok => getRaw(heap, last.result) = ChildAtCursor

\* getExpression has returned an absent value for a missing expression
C8_Witness ==
  /\ last.op = "getExpression"
  /\ ~last.ok
  /\ isMissing(heap, ChildAtCursor)

TokenSetterOps ==
  {"withDigits", "withSign", "withIdentifier", "withLabel", "withColonToken",
   "withTrailingComma", "withLeftParen", "withRightParen",
   "useLeftParen", "useRightParen"}

\* the contract of the slot a token setter fills: its token kind and, for
\* punctuation, its spelling
SlotKind(op) ==
  CASE op = "withDigits" -> "integer_literal"
    [] op = "withSign" -> "oper_prefix"
    [] op \in {"withIdentifier", "withLabel"} -> "identifier"
    [] op = "withColonToken" -> "colon"
    [] op = "withTrailingComma" -> "comma"
    [] op \in {"withLeftParen", "useLeftParen"} -> "l_paren"
    [] op \in {"withRightParen", "useRightParen"} -> "r_paren"

SlotSpellings(op) ==
  CASE op = "withColonToken" -> {<<":">>}
    [] op = "withTrailingComma" -> {<<",">>}
    [] op \in {"withLeftParen", "useLeftParen"} -> {<<"(">>}
    [] op \in {"withRightParen", "useRightParen"} -> {<<")">>}
    [] OTHER -> {heap[t].Text : t \in 1..Len(heap)}

\* C9: a token setter succeeds exactly when the token has the kind of the
\* slot and, for the colon, comma and parenthesis slots, the fixed spelling;
\* when it fails, no node is allocated and the views and the builder's staged
\* layouts are what they were.
C9_SetterContract ==
  last.op \in TokenSetterOps =>
    /\ last.ok <=> /\ heap[last.arg].TokKind = SlotKind(last.op)
                   /\ heap[last.arg].Text \in SlotSpellings(last.op)
    /\ ~last.ok => /\ aborted
                   /\ heap = last.heapBefore
                   /\ views = last.viewsBefore
                   /\ builder = last.builderBefore

\* a colon token of another spelling was refused
C9_Witness ==
  /\ last.op = "withColonToken"
  /\ ~last.ok
  /\ heap[last.arg].TokKind = "colon"

\* the call node a build() made and its argument list node
BuiltRaw(i) == heap[getRaw(heap, built[i].view)]
BuiltList(i) == heap[ArgumentListOf(built[i].view)]

\* C10: build() leaves the builder's layouts as they were; every built tree
\* keeps the content the builder had staged when it was built, whatever is
\* called on the builder later; two builds return different root nodes, of
\* equal content when the builder was not touched in between.
C10_BuildLeavesBuilder ==
  /\ last.op = "build" => builder = last.builderBefore
  /\ \A i \in 1..Len(built) :
       /\ BuiltRaw(i).Kind = "FunctionCallExpr"
       /\ BuiltRaw(i).Layout =
            [built[i].builder.CallLayout EXCEPT
               ![cursorIndex(Cursor_ArgumentList)] = ArgumentListOf(built[i].view)]
       /\ BuiltList(i).Layout = built[i].builder.ListLayout
  /\ \A i, j \in 1..Len(built) :
       i < j =>
         /\ getRaw(heap, built[i].view) # getRaw(heap, built[j].view)
         /\ built[i].builder = built[j].builder =>
              /\ BuiltList(i) = BuiltList(j)
              /\ \A k \in 1..Len(BuiltRaw(i).Layout) :
                   k # cursorIndex(Cursor_ArgumentList) =>
                     BuiltRaw(i).Layout[k] = BuiltRaw(j).Layout[k]

\* two builds in a row of a builder that holds an argument
C10_Witness ==
  /\ Len(built) >= 2
  /\ built[1].builder.ListLayout # <<>>
  /\ built[1].builder = built[2].builder

---------------------------------------------------------------------------
(* Shape validation: validate() of each category, run by the construction  *)
(* of a typed view over a raw node.  Its outcome is a set: reading a child *)
(* beyond the end of Layout is undefined, and the build may then pass the  *)
(* assert or stop.                                                         *)

Undefined == {TRUE, FALSE}

\* the cursor is within the layout of the node
InLayout(h, raw, C) == cursorIndex(C) <= Len(h[raw].Layout)

\* syntax_assert_child_kind(Raw, Cursor, ExpectedKind)
syntax_assert_child_kind(h, raw, C, ExpectedKind) ==
  h[RawSyntax_getChild(h, raw, C)].Kind = ExpectedKind

\* syntax_assert_child_token(Raw, Cursor, TokenKind)
syntax_assert_child_token(h, raw, C, TokenKind) ==
  /\ h[RawSyntax_getChild(h, raw, C)].Kind = "Token"
  /\ h[RawSyntax_getChild(h, raw, C)].TokKind = TokenKind

\* syntax_assert_child_token_text(Raw, Cursor, TokenKind, Text)
syntax_assert_child_token_text(h, raw, C, TokenKind, Text) ==
  /\ syntax_assert_child_token(h, raw, C, TokenKind)
  /\ h[RawSyntax_getChild(h, raw, C)].Text = Text

UnknownExprSyntax_validate(h, raw) == {h[raw].Kind = "UnknownExpr"}

IntegerLiteralExprSyntax_validate(h, raw) ==
  { /\ h[raw].Kind = "IntegerLiteralExpr"
    /\ Len(h[raw].Layout) = 2
    /\ syntax_assert_child_token(h, raw, Cursor_Sign, "oper_prefix")
    /\ syntax_assert_child_token(h, raw, Cursor_Digits, "integer_literal") }

SymbolicReferenceExprSyntax_validate(h, raw) ==
  { /\ Len(h[raw].Layout) = 2
    /\ syntax_assert_child_token(h, raw, Cursor_Identifier, "identifier")
    /\ syntax_assert_child_kind(h, raw, Cursor_GenericArgumentClause,
                                "GenericArgumentClause") }

\* No assert on Layout.size(): the four children are read in turn.
FunctionCallArgumentSyntax_validate(h, raw) ==
  IF ~InLayout(h, raw, Cursor_Label) THEN Undefined
  ELSE IF ~syntax_assert_child_token(h, raw, Cursor_Label, "identifier") THEN {FALSE}
  ELSE IF ~InLayout(h, raw, Cursor_Colon) THEN Undefined
  ELSE IF ~syntax_assert_child_token_text(h, raw, Cursor_Colon, "colon", <<":">>)
       THEN {FALSE}
  ELSE IF ~InLayout(h, raw, Cursor_Expression) THEN Undefined
  ELSE IF ~isExpr(h, RawSyntax_getChild(h, raw, Cursor_Expression)) THEN {FALSE}
  ELSE IF ~InLayout(h, raw, Cursor_Comma) THEN Undefined
  ELSE {syntax_assert_child_token_text(h, raw, Cursor_Comma, "comma", <<",">>)}

\* No assert on Layout.size() here either.
FunctionCallExprSyntax_validate(h, raw) ==
  IF ~InLayout(h, raw, Cursor_CalledExpression) THEN Undefined
  ELSE IF ~isExpr(h, RawSyntax_getChild(h, raw, Cursor_CalledExpression)) THEN {FALSE}
  ELSE IF ~InLayout(h, raw, Cursor_LeftParen) THEN Undefined
  ELSE IF ~syntax_assert_child_token_text(h, raw, Cursor_LeftParen, "l_paren", <<"(">>)
       THEN {FALSE}
  ELSE IF ~InLayout(h, raw, Cursor_ArgumentList) THEN Undefined
  ELSE IF ~syntax_assert_child_kind(h, raw, Cursor_ArgumentList,
                                    "FunctionCallArgumentList") THEN {FALSE}
  ELSE IF ~InLayout(h, raw, Cursor_RightParen) THEN Undefined
  ELSE {syntax_assert_child_token_text(h, raw, Cursor_RightParen, "r_paren", <<")">>)}

\* the raw nodes a client can put under a hand-made node
ValidateHeap ==
  InitHeap \o << RawSyntax_node("FunctionCallArgumentList", <<>>, Present) >>

\* the children tried under a node of each category: the ones its slots
\* take, the same tokens in another spelling, and a node of another kind
ChildPool(category) ==
  {n \in 1..Len(ValidateHeap) :
     LET c == ValidateHeap[n]
     IN CASE category = "UnknownExpr" ->
               c.TokKind = "identifier" \/ c.Kind = "IntegerLiteralExpr"
          [] category = "IntegerLiteralExpr" ->
               c.TokKind \in {"oper_prefix", "integer_literal", "identifier"}
          [] category = "SymbolicReferenceExpr" ->
               c.TokKind \in {"identifier", "integer_literal"}
                 \/ c.Kind = "GenericArgumentClause"
          [] category = "FunctionCallArgument" ->
               c.TokKind \in {"identifier", "colon", "comma"}
                 \/ c.Kind = "IntegerLiteralExpr"
          [] category = "FunctionCallExpr" ->
               c.TokKind \in {"l_paren", "r_paren"}
                 \/ c.Kind \in {"IntegerLiteralExpr", "FunctionCallArgumentList"}}

\* the layouts of a given length
Layouts(category, n) == [1..n -> ChildPool(category)]

InitValidate ==
  /\ heap = ValidateHeap
  /\ views = {}
  /\ builder = [CallLayout |-> <<>>, ListLayout |-> <<>>]
  /\ used = [CalledExpression |-> 0, LeftParen |-> 0, RightParen |-> 0,
             Arguments |-> <<>>]
  /\ built = <<>>
  /\ last = NoCall
  /\ aborted = FALSE
  /\ attempt = NoAttempt
  /\ harness = HarnessIdle

\* RawSyntax::make of a node of the category's kind (or of another kind)
\* over some layout, then the construction of the typed view over it
ConstructTypedView(category, outcomes(_, _)) ==
  /\ attempt = NoAttempt
  /\ \E short \in 0..MaxLayout, Kind \in {category, "MissingExpr"} :
     \E layout \in Layouts(category, MaxLayout - short) :
       LET r == RawSyntax_make(heap, Kind, layout, Present)
       IN \E ok \in outcomes(r.heap, r.id) :
         /\ heap' = r.heap
         /\ attempt' = [category |-> category, raw |-> r.id, ok |-> ok]
         /\ aborted' = ~ok
         /\ UNCHANGED <<views, builder, used, built, last, harness>>

ConstructUnknownExpr ==
  ConstructTypedView("UnknownExpr", UnknownExprSyntax_validate)

ConstructIntegerLiteralExpr ==
  ConstructTypedView("IntegerLiteralExpr", IntegerLiteralExprSyntax_validate)

ConstructSymbolicReferenceExpr ==
  ConstructTypedView("SymbolicReferenceExpr", SymbolicReferenceExprSyntax_validate)

ConstructFunctionCallArgument ==
  ConstructTypedView("FunctionCallArgument", FunctionCallArgumentSyntax_validate)

ConstructFunctionCallExpr ==
  ConstructTypedView("FunctionCallExpr", FunctionCallExprSyntax_validate)

NextValidate ==
  \/ ConstructUnknownExpr
  \/ ConstructIntegerLiteralExpr
  \/ ConstructSymbolicReferenceExpr
  \/ ConstructFunctionCallArgument
  \/ ConstructFunctionCallExpr

SpecValidate == InitValidate /\ [][NextValidate]_vars

\* The declared shape of each category: its arity and, per slot, the token
\* kind (with the spelling of punctuation), the node kind, or "an expression".
Arity(category) ==
  CASE category \in {"IntegerLiteralExpr", "SymbolicReferenceExpr"} -> 2
    [] category \in {"FunctionCallArgument", "FunctionCallExpr"} -> 4

IsToken(c, TokKind) == c.Kind = "Token" /\ c.TokKind = TokKind
IsTokenText(c, TokKind, Text) == IsToken(c, TokKind) /\ c.Text = Text

SlotFits(category, i, c) ==
  CASE category = "IntegerLiteralExpr" ->
         IF i = 1 THEN IsToken(c, "oper_prefix") ELSE IsToken(c, "integer_literal")
    [] category = "SymbolicReferenceExpr" ->
         IF i = 1 THEN IsToken(c, "identifier") ELSE c.Kind = "GenericArgumentClause"
    [] category = "FunctionCallArgument" ->
         CASE i = 1 -> IsToken(c, "identifier")
           [] i = 2 -> IsTokenText(c, "colon", <<":">>)
           [] i = 3 -> c.Kind \in ExprKinds
           [] i = 4 -> IsTokenText(c, "comma", <<",">>)
    [] category = "FunctionCallExpr" ->
         CASE i = 1 -> c.Kind \in ExprKinds
           [] i = 2 -> IsTokenText(c, "l_paren", <<"(">>)
           [] i = 3 -> c.Kind = "FunctionCallArgumentList"
           [] i = 4 -> IsTokenText(c, "r_paren", <<")">>)

\* wrong arity, or a child of the wrong kind or spelling in some slot; an
\* unknown expression takes any shape
WrongShape(category, raw) ==
  /\ category # "UnknownExpr"
  /\ \/ Len(heap[raw].Layout) # Arity(category)
     \/ \E i \in 1..Arity(category) :
          /\ i <= Len(heap[raw].Layout)
          /\ ~SlotFits(category, i, heap[heap[raw].Layout[i]])

\* C4: the construction of a typed view over a raw node of wrong arity, wrong
\* child kind or wrong punctuation spelling for its category fails validate().
C4_ContractEnforcement ==
  (attempt # NoAttempt /\ WrongShape(attempt.category, attempt.raw)) => ~attempt.ok

---------------------------------------------------------------------------
(* swift-syntax-test: the process from main() to its exit code.  The       *)
(* command line and the behaviour of the file system, of the compiler      *)
(* instance, of the parser and of the lexer are inputs.                    *)

EXIT_SUCCESS == 0
EXIT_FAILURE == 1

ActionType ==
  {"DumpRawTokenSyntax", "FullLexRoundTrip", "FullParseRoundTrip",
   "SerializeRawTree", "None"}

\* getTokensFromFile(BufferID, ...): tokenize; the result is the state of the
\* diagnostic engine.  [rc, Tokens, hadAnyError]
getTokensFromFile_Buffer(hs, hadAnyError) ==
  LET had == hadAnyError \/ hs.lexError
  IN [rc |-> IF had THEN EXIT_FAILURE ELSE EXIT_SUCCESS,
      Tokens |-> "filled", hadAnyError |-> had]

\* getTokensFromFile(InputFilename, ...)
getTokensFromFile_Filename(hs) ==
  IF ~hs.fileOpens
  THEN [rc |-> EXIT_FAILURE, Tokens |-> "empty", hadAnyError |-> TRUE]
  ELSE getTokensFromFile_Buffer(hs, FALSE)

\* getSyntaxTree: setup, parse, retokenize, transform
getSyntaxTree(hs) ==
  IF ~hs.fileOpens \/ ~hs.setupOk
  THEN [rc |-> EXIT_FAILURE, Tokens |-> "empty", hadAnyError |-> TRUE]
  ELSE IF hs.parseError
  THEN [rc |-> EXIT_FAILURE, Tokens |-> "empty", hadAnyError |-> TRUE]
  ELSE getTokensFromFile_Buffer(hs, FALSE)

\* doFullLexRoundTrip: its exit codes
doFullLexRoundTrip(hs) ==
  LET t == getTokensFromFile_Filename(hs)
  IN IF t.rc = EXIT_FAILURE THEN {EXIT_FAILURE}
     ELSE {IF t.hadAnyError THEN EXIT_FAILURE ELSE EXIT_SUCCESS}

\* doDumpRawTokenSyntax: its exit codes
doDumpRawTokenSyntax(hs) ==
  LET t == getTokensFromFile_Filename(hs)
  IN IF t.rc = EXIT_FAILURE THEN {EXIT_FAILURE}
     ELSE {IF t.hadAnyError THEN EXIT_FAILURE ELSE EXIT_SUCCESS}

\* the process was killed by a signal instead of returning from main
Crashed == 139

\* doFullParseRoundTrip: the result of getSyntaxTree is dropped; Tokens.back()
\* of an empty vector is undefined
doFullParseRoundTrip(hs) ==
  LET t == getSyntaxTree(hs)
  IN IF t.Tokens = "empty" THEN {EXIT_SUCCESS, EXIT_FAILURE, Crashed}
     ELSE {EXIT_SUCCESS}

\* doSerializeRawTree: the result of getSyntaxTree is dropped
doSerializeRawTree(hs) ==
  LET t == getSyntaxTree(hs)
  IN {EXIT_SUCCESS}

LibraryUnused ==
  /\ heap = <<>>
  /\ views = {}
  /\ builder = [CallLayout |-> <<>>, ListLayout |-> <<>>]
  /\ used = [CalledExpression |-> 0, LeftParen |-> 0, RightParen |-> 0,
             Arguments |-> <<>>]
  /\ built = <<>>
  /\ last = NoCall
  /\ aborted = FALSE
  /\ attempt = NoAttempt

InitHarness ==
  /\ LibraryUnused
  /\ \E filenameGiven \in BOOLEAN, Action \in ActionType, fileOpens \in BOOLEAN,
        setupOk \in BOOLEAN, parseError \in BOOLEAN, lexError \in BOOLEAN :
       harness = [pc |-> "main", filenameGiven |-> filenameGiven, Action |-> Action,
                  fileOpens |-> fileOpens, setupOk |-> setupOk,
                  parseError |-> parseError, lexError |-> lexError,
                  ExitCode |-> EXIT_SUCCESS]

HarnessStep(pc, next, codes) ==
  /\ harness.pc = pc
  /\ \E code \in codes : harness' = [harness EXCEPT !.pc = next, !.ExitCode = code]
  /\ UNCHANGED <<heap, views, builder, used, built, last, aborted, attempt>>

\* main, up to the switch: the input filename is required
MainCheckFilename ==
  \/ /\ ~harness.filenameGiven
     /\ HarnessStep("main", "exit", {EXIT_FAILURE})
  \/ /\ harness.filenameGiven
     /\ HarnessStep("main", "switch", {harness.ExitCode})

MainDumpRawTokenSyntax ==
  /\ harness.Action = "DumpRawTokenSyntax"
  /\ HarnessStep("switch", "exit", doDumpRawTokenSyntax(harness))

MainFullLexRoundTrip ==
  /\ harness.Action = "FullLexRoundTrip"
  /\ HarnessStep("switch", "exit", doFullLexRoundTrip(harness))

MainSerializeRawTree ==
  /\ harness.Action = "SerializeRawTree"
  /\ HarnessStep("switch", "exit", doSerializeRawTree(harness))

MainFullParseRoundTrip ==
  /\ harness.Action = "FullParseRoundTrip"
  /\ HarnessStep("switch", "exit", doFullParseRoundTrip(harness))

MainNoAction ==
  /\ harness.Action = "None"
  /\ HarnessStep("switch", "exit", {EXIT_FAILURE})

NextHarness ==
  \/ MainCheckFilename
  \/ MainDumpRawTokenSyntax
  \/ MainFullLexRoundTrip
  \/ MainSerializeRawTree
  \/ MainFullParseRoundTrip
  \/ MainNoAction

SpecHarness == InitHarness /\ [][NextHarness]_vars

\* an I/O or diagnostic error happens in this run, or the command line lacks
\* the filename or the action
ErrorInRun ==
  \/ ~harness.filenameGiven
  \/ harness.Action = "None"
  \/ ~harness.fileOpens
  \/ harness.lexError
  \/ /\ harness.Action \in {"FullParseRoundTrip", "SerializeRawTree"}
     /\ ~harness.setupOk \/ harness.parseError

\* C7: the exit code is 1 whenever the file cannot be opened, the compiler
\* setup fails, lexing or parsing reports an error, or the filename or the
\* action is not given, and 0 otherwise, for every action.
C7_ExitCode ==
  harness.pc = "exit" =>
    harness.ExitCode = (IF ErrorInRun THEN EXIT_FAILURE ELSE EXIT_SUCCESS)

---------------------------------------------------------------------------
(* Printing: a client that holds the lexed and parsed pieces of            *)
(* "foo(x: 1,)" and of "-42", builds call expressions and integer literals *)
(* out of them in any order, and prints what it gets.                      *)

MaxPrintCalls == 5

PrintTokens ==
  << RawTokenSyntax_make("identifier", <<"f", "o", "o">>, Present, <<>>, <<>>),
     RawTokenSyntax_make("identifier", <<"x">>, Present, <<>>, <<>>),
     RawTokenSyntax_make("colon", <<":">>, Present, <<>>, <<" ">>),
     RawTokenSyntax_make("integer_literal", <<"1">>, Present, <<>>, <<>>),
     RawTokenSyntax_make("comma", <<",">>, Present, <<>>, <<>>),
     RawTokenSyntax_make("l_paren", <<"(">>, Present, <<>>, <<>>),
     RawTokenSyntax_make("r_paren", <<")">>, Present, <<>>, <<>>),
     RawTokenSyntax_make("oper_prefix", <<"-">>, Present, <<>>, <<>>),
     RawTokenSyntax_make("integer_literal", <<"4", "2">>, Present, <<>>, <<>>) >>

\* the lexed token of a spelling
Spelled(text) == CHOOSE t \in 1..Len(PrintTokens) : PrintTokens[t].Text = text

\* the parsed callee foo, without generic-argument clause, and the parsed
\* argument "x: 1,"
PrintNodes ==
  LET n == Len(PrintTokens)
  IN << RawSyntax_missing("GenericArgumentClause"),
        RawSyntax_node("SymbolicReferenceExpr", <<Spelled(<<"f", "o", "o">>), n + 1>>,
                       Present),
        RawTokenSyntax_missingToken("oper_prefix", <<>>),
        RawSyntax_node("IntegerLiteralExpr", <<n + 3, Spelled(<<"1">>)>>, Present),
        RawSyntax_node("FunctionCallArgument",
                       <<Spelled(<<"x">>), Spelled(<<":">>), n + 4, Spelled(<<",">>)>>,
                       Present) >>

PrintHeap == PrintTokens \o PrintNodes

ParsedCallee == Len(PrintTokens) + 2
ParsedArgument == Len(PrintHeap)

InitPrint ==
  /\ LibraryInit(PrintHeap, {make("SymbolicReferenceExprSyntax", ParsedCallee),
                             make("FunctionCallArgumentSyntax", ParsedArgument)})
  /\ attempt = NoAttempt
  /\ harness = HarnessIdle

Printing == ~aborted /\ last.n < MaxPrintCalls

PrintMakeBlankIntegerLiteralExpr ==
  /\ Printing
  /\ ViewStep("IntegerLiteralExprSyntax::makeBlank", NoView, 0, 0,
              IntegerLiteralExprSyntax_makeBlank(heap))

PrintWithSign ==
  \E v \in ViewsOf("IntegerLiteralExprSyntax"), t \in TokensFor("oper_prefix") :
    /\ Printing
    /\ ViewStep("withSign", v, t, Cursor_Sign,
                IntegerLiteralExprSyntax_withSign(heap, v, t))

PrintWithDigits ==
  \E v \in ViewsOf("IntegerLiteralExprSyntax"), t \in TokensFor("integer_literal") :
    /\ Printing
    /\ ViewStep("withDigits", v, t, Cursor_Digits,
                IntegerLiteralExprSyntax_withDigits(heap, v, t))

PrintUseCalledExpression ==
  \E e \in ExprViews :
    /\ Printing
    /\ BuilderStep("useCalledExpression", getRaw(heap, e),
                   FunctionCallExprSyntaxBuilder_useCalledExpression(heap, builder, e),
                   [used EXCEPT !.CalledExpression = getRaw(heap, e)])

PrintUseLeftParen ==
  \E t \in TokensFor("l_paren") :
    /\ Printing
    /\ BuilderStep("useLeftParen", t,
                   FunctionCallExprSyntaxBuilder_useLeftParen(heap, builder, t),
                   [used EXCEPT !.LeftParen = t])

PrintAppendArgument ==
  \E a \in ViewsOf("FunctionCallArgumentSyntax") :
    /\ Printing
    /\ BuilderStep("appendArgument", getRaw(heap, a),
                   FunctionCallExprSyntaxBuilder_appendArgument(heap, builder, a),
                   [used EXCEPT !.Arguments = Append(@, getRaw(heap, a))])

PrintUseRightParen ==
  \E t \in TokensFor("r_paren") :
    /\ Printing
    /\ BuilderStep("useRightParen", t,
                   FunctionCallExprSyntaxBuilder_useRightParen(heap, builder, t),
                   [used EXCEPT !.RightParen = t])

PrintBuild ==
  /\ Printing
  /\ BuildStep(FunctionCallExprSyntaxBuilder_build(heap, builder))

NextPrint ==
  \/ PrintMakeBlankIntegerLiteralExpr
  \/ PrintWithSign
  \/ PrintWithDigits
  \/ PrintUseCalledExpression
  \/ PrintUseLeftParen
  \/ PrintAppendArgument
  \/ PrintUseRightParen
  \/ PrintBuild

SpecPrint == InitPrint /\ [][NextPrint]_vars

\* the print of a piece handed to the builder; nothing when none was
PrintOf(raw) == IF raw = 0 THEN <<>> ELSE RawSyntax_print(heap, raw)

RECURSIVE PrintAll(_)
PrintAll(raws) ==
  IF raws = <<>> THEN <<>> ELSE PrintOf(Head(raws)) \o PrintAll(Tail(raws))

\* the tokens under a node in tree order, those under a missing node left out
RECURSIVE Leaves(_)
RECURSIVE LeavesOf(_)
Leaves(raw) ==
  IF heap[raw].Presence = Missing THEN <<>>
  ELSE IF heap[raw].Kind = "Token" THEN <<raw>>
       ELSE LeavesOf(heap[raw].Layout)

LeavesOf(layout) ==
  IF layout = <<>> THEN <<>> ELSE Leaves(Head(layout)) \o LeavesOf(Tail(layout))

RECURSIVE Spellings(_)
Spellings(tokens) ==
  IF tokens = <<>> THEN <<>>
  ELSE heap[Head(tokens)].Leading \o heap[Head(tokens)].Text
         \o heap[Head(tokens)].Trailing \o Spellings(Tail(tokens))

\* the pieces of foo(x: 1,) were handed to the builder
UsedFooCall(u) ==
  u = [CalledExpression |-> ParsedCallee, LeftParen |-> Spelled(<<"(">>),
       RightParen |-> Spelled(<<")">>), Arguments |-> <<ParsedArgument>>]

\* the receiver of the last call is what makeBlank().withSign(-) returns
ReceiverIsBlankWithMinus ==
  LET r == last.heapBefore[getRaw(last.heapBefore, last.view)]
  IN /\ r.Layout[cursorIndex(Cursor_Sign)] = Spelled(<<"-">>)
     /\ isMissing(last.heapBefore, r.Layout[cursorIndex(Cursor_Digits)])

\* the last call was makeBlank().withSign(-).withDigits(42)
C6_MinusFortyTwo ==
  /\ last.op = "withDigits"
  /\ last.ok
  /\ last.arg = Spelled(<<"4", "2">>)
  /\ ReceiverIsBlankWithMinus

\* C6: a tree prints as the trivia and spellings of its present tokens in tree
\* order, nothing for what is missing; the call expression build() returns
\* prints as callee, left paren, the appended arguments in append order, right
\* paren, which is foo(x: 1,) for the pieces of that call; and
\* makeBlank().withSign(-).withDigits(42) prints as -42.
C6_Printing ==
  /\ \A v \in views :
       RawSyntax_print(heap, getRaw(heap, v)) = Spellings(Leaves(getRaw(heap, v)))
  /\ \A i \in 1..Len(built) :
       /\ RawSyntax_print(heap, getRaw(heap, built[i].view)) =
            PrintOf(built[i].used.CalledExpression) \o PrintOf(built[i].used.LeftParen)
              \o PrintAll(built[i].used.Arguments) \o PrintOf(built[i].used.RightParen)
       /\ UsedFooCall(built[i].used) =>
            RawSyntax_print(heap, getRaw(heap, built[i].view)) =
              <<"f", "o", "o", "(", "x", ":", " ", "1", ",", ")">>
  /\ C6_MinusFortyTwo
       => RawSyntax_print(heap, getRaw(heap, last.result)) = <<"-", "4", "2">>

\* foo(x: 1,) has been built out of its pieces
C6_Witness == \E i \in 1..Len(built) : UsedFooCall(built[i].used)

---------------------------------------------------------------------------
(* Edits below the root: the parser hands the client the call              *)
(* "x<>(x: 1, x: 1)" with views anchored at its root, at its callee, at    *)
(* its argument list, at its first argument and at that argument's         *)
(* expression; the client edits through any of them.                       *)

ParsedCallNodes ==
  LET n == Len(ClientHeap)
  IN << RawSyntax_node("FunctionCallArgumentList", <<Len(InitHeap), n>>, Present),
        RawSyntax_node("SymbolicReferenceExpr",
                       <<InitHeap[Len(InitHeap)].Layout[cursorIndex(Cursor_Label)],
                         Len(LexedTokens) + 1>>, Present),
        RawSyntax_node("FunctionCallExpr",
                       <<n + 2,
                         CHOOSE t \in 1..Len(LexedTokens) :
                           /\ LexedTokens[t].TokKind = "l_paren"
                           /\ LexedTokens[t].Text = <<"(">>,
                         n + 1,
                         CHOOSE t \in 1..Len(LexedTokens) :
                           /\ LexedTokens[t].TokKind = "r_paren"
                           /\ LexedTokens[t].Text = <<")">> >>, Present) >>

DepthHeap == ClientHeap \o ParsedCallNodes

\* a view anchored at a path below the root of the parsed call
Anchored(Type, path) == [Type |-> Type, Root |-> Len(DepthHeap), Path |-> path]

DepthViews ==
  {Anchored("FunctionCallExprSyntax", <<>>),
   Anchored("SymbolicReferenceExprSyntax", <<Cursor_CalledExpression>>),
   Anchored("FunctionCallArgumentListSyntax", <<Cursor_ArgumentList>>),
   Anchored("FunctionCallArgumentSyntax", <<Cursor_ArgumentList, 0>>),
   Anchored("IntegerLiteralExprSyntax",
            <<Cursor_ArgumentList, 0, Cursor_Expression>>)}

InitDepth ==
  /\ LibraryInit(DepthHeap, DepthViews)
  /\ attempt = NoAttempt
  /\ harness = HarnessIdle

NextDepth ==
  \/ WithDigits
  \/ WithSign
  \/ WithIdentifier
  \/ WithGenericArgumentClause
  \/ WithLabel
  \/ WithColonToken
  \/ WithExpression
  \/ WithTrailingComma
  \/ WithCalledExpression
  \/ WithLeftParen
  \/ WithArgumentList
  \/ WithRightParen

SpecDepth == InitDepth /\ [][NextDepth]_vars

\* the node instances from a root down a path, the root first
RECURSIVE PathNodes(_, _, _)
PathNodes(h, raw, path) ==
  IF path = <<>> THEN <<raw>>
  ELSE <<raw>> \o PathNodes(h, h[raw].Layout[cursorIndex(Head(path))], Tail(path))

\* the last call was a successful withX edit
Edited == last.op \in WithOps /\ last.ok

\* the path of the edit: the view's path followed by the cursor of the slot
EditPath == Append(last.view.Path, last.cursor)

OldPathNodes == PathNodes(last.heapBefore, last.view.Root, last.view.Path)
NewPathNodes == PathNodes(heap, last.result.Root, last.result.Path)

\* the instances allocated by the last call
Allocated == (Len(last.heapBefore) + 1)..Len(heap)

\* what an edit does apart from the number of instances it makes: the nodes
\* on the path in the new tree are new, every subtree off the path is the
\* instance it was in the old tree, the result is anchored where the view
\* was, and nothing that existed before has changed
EditRebuildsPath ==
  /\ \A k \in 1..Len(NewPathNodes) : NewPathNodes[k] \in Allocated
  /\ \A n \in Allocated : \E k \in 1..Len(NewPathNodes) : NewPathNodes[k] = n
  /\ \A k \in 1..Len(NewPathNodes) :
       /\ Len(heap[NewPathNodes[k]].Layout) = Len(heap[OldPathNodes[k]].Layout)
       /\ \A i \in 1..Len(heap[NewPathNodes[k]].Layout) :
            i # cursorIndex(EditPath[k]) =>
              heap[NewPathNodes[k]].Layout[i] = heap[OldPathNodes[k]].Layout[i]
  /\ last.result.Path = last.view.Path
  /\ last.result.Type = last.view.Type
  /\ \A n \in 1..Len(last.heapBefore) : heap[n] = last.heapBefore[n]

\* C11 as stated: an edit on a view at depth d makes exactly d new instances
\* on the path from the root to the edited node, shares every subtree off
\* that path, anchors the result at the same index and leaves the old tree
\* unchanged.
C11_DepthEditAllocatesDepth ==
  Edited =>
    /\ EditRebuildsPath
    /\ Cardinality(Allocated) = Len(last.view.Path)

\* C11: an edit on a view at depth d makes exactly d + 1 new instances, the
\* edited node and its d ancestors up to the new root; every subtree off that
\* path is the instance it was, the result is anchored at the same path, and
\* the old root and its descendants are unchanged.
C11_DepthEdit ==
  Edited =>
    /\ EditRebuildsPath
    /\ Cardinality(Allocated) = Len(last.view.Path) + 1
    /\ Len(NewPathNodes) = Len(last.view.Path) + 1

\* an edit three levels below the root, after an earlier edit
C11_Witness ==
  /\ Edited
  /\ Len(last.view.Path) = 3
  /\ last.n >= 2
  /\ heap[getRaw(heap, last.result)].Layout[cursorIndex(last.cursor)] = last.arg

---------------------------------------------------------------------------
(* The shape of what the API hands out, checked under Spec. *)

\* validate() of the view's category passes on the node under the view
Validates(v) ==
  LET raw == getRaw(heap, v)
  IN CASE v.Type = "UnknownExprSyntax" ->
            UnknownExprSyntax_validate(heap, raw) = {TRUE}
       [] v.Type = "IntegerLiteralExprSyntax" ->
            IntegerLiteralExprSyntax_validate(heap, raw) = {TRUE}
       [] v.Type = "SymbolicReferenceExprSyntax" ->
            SymbolicReferenceExprSyntax_validate(heap, raw) = {TRUE}
       [] v.Type = "FunctionCallArgumentSyntax" ->
            FunctionCallArgumentSyntax_validate(heap, raw) = {TRUE}
       [] v.Type = "FunctionCallExprSyntax" ->
            FunctionCallExprSyntax_validate(heap, raw) = {TRUE}
       [] OTHER -> TRUE

\* a call node of four children: expression, "(", argument list, ")"
CallShape(raw) ==
  LET c == heap[raw]
  IN /\ c.Kind = "FunctionCallExpr"
     /\ Len(c.Layout) = 4
     /\ isExpr(heap, c.Layout[1])
     /\ heap[c.Layout[2]].Kind = "Token"
     /\ heap[c.Layout[2]].TokKind = "l_paren"
     /\ heap[c.Layout[2]].Text = <<"(">>
     /\ heap[c.Layout[3]].Kind = "FunctionCallArgumentList"
     /\ \A k \in 1..Len(heap[c.Layout[3]].Layout) :
          heap[heap[c.Layout[3]].Layout[k]].Kind = "FunctionCallArgument"
     /\ heap[c.Layout[4]].Kind = "Token"
     /\ heap[c.Layout[4]].TokKind = "r_paren"
     /\ heap[c.Layout[4]].Text = <<")">>

\* C12: every typed view the client holds after any sequence of makeBlank,
\* withX, useX, appendArgument and build calls passes the validate() of its
\* category, and every call expression build() returned has exactly four
\* children: an expression, an l_paren "(", a FunctionCallArgumentList of
\* FunctionCallArgument nodes, and an r_paren ")".
C12_ShapeInvariant ==
  /\ \A v \in views : Validates(v)
  /\ \A i \in 1..Len(built) : CallShape(getRaw(heap, built[i].view))

\* a call built after a left paren was set and an argument appended, held
\* together with the views earlier calls returned
C12_Witness ==
  /\ \E i \in 1..Len(built) :
       /\ built[i].used.LeftParen # 0
       /\ built[i].used.Arguments # <<>>
       /\ built[i].view \in views
  /\ last.op = "build"

====
